---- MODULE Spec2Model ----
(***************************************************************************)
(* Model of the code-extraction-and-execution pipeline:                    *)
(*   utils/utils.py            get_code, update_dataset_local_path,        *)
(*                             save_script, replace_show_with_savefig,     *)
(*                             execute_code                                *)
(*   ice_correctness_rating_bms.py  extract_and_save_scripts_from_sheets   *)
(*                                                                         *)
(* A Python str is a sequence of one-character strings.                    *)
(***************************************************************************)
EXTENDS Integers, Sequences, FiniteSets, TLC

VARIABLES
    pc,                 \* control position of the running function
    model_a_response,   \* the response cell handed to get_code
    code,               \* the code text as it moves through the pipeline
    filename,           \* the dataset name of the row
    id,                 \* the row identifier
    ret,                \* the value the last call returned
    sheet_idx,          \* index of the sheet being processed (loop of line 13)
    num_rows,           \* number of rows of the sheet being processed
    rows_read,          \* number of rows of the sheets read so far
    row_number,         \* index of the next row of the sheet (loop of line 17)
    console,            \* what was written to the real standard output
    stdout,             \* what sys.stdout is bound to: "console" or "buffer"
    old_targets,        \* the stream redirect_stdout saved, None outside the with
    f,                  \* the StringIO capture buffer of execute_code
    outcome,            \* what exec(code) did: printed text and how it ended
    error_found,        \* execute_code's flag
    error_desc,         \* execute_code's classification, <<>> while unset
    script_files,       \* <scripts_dir>/<id>.py       : id -> content
    output_files,       \* <outputs_dir>/<id>_output.txt : id -> content
    error_files,        \* <errors_dir>/<id>_error.txt   : id -> content
    code_in,            \* the code text handed to the last pipeline step
    run,                \* number of execute_code calls started so far
    entry_files         \* the artifacts of id found when execute_code was entered

vars == <<pc, model_a_response, code, code_in, filename, id, ret, sheet_idx,
          num_rows, rows_read, row_number, console, stdout, old_targets, f,
          outcome, error_found, error_desc, script_files, output_files,
          error_files, run, entry_files>>

----------------------------------------------------------------------------
(* Bounds of the model *)

MaxPieces == 7      \* pieces of a response text given to get_code
MaxLines == 3       \* lines of a code text given to the path rewriter
MaxTokens == 4      \* pieces of a code text given to the display substituter
MaxRows == 3        \* rows of the workbook, all sheets together
NumSheets == 2      \* sheets of the workbook

----------------------------------------------------------------------------
(* Python str operations *)

NL == "\n"
CR == "\r"
BQ == "BQ"          \* the backquote character

\* the characters str.splitlines treats as a line boundary
LineBreaks == {NL, CR}

\* sub in s
Contains(s, sub) ==
    \E i \in 0..(Len(s) - Len(sub)) : SubSeq(s, i + 1, i + Len(sub)) = sub

\* s.find(ch) for a one-character ch: 0-based index of the first one, or -1
Find(s, ch) ==
    IF \E i \in 1..Len(s) : s[i] = ch
    THEN (CHOOSE i \in 1..Len(s) : s[i] = ch /\ \A j \in 1..(i - 1) : s[j] # ch) - 1
    ELSE -1

\* s.rfind(ch): 0-based index of the last one, or -1
RFind(s, ch) ==
    IF \E i \in 1..Len(s) : s[i] = ch
    THEN (CHOOSE i \in 1..Len(s) : s[i] = ch /\ \A j \in (i + 1)..Len(s) : s[j] # ch) - 1
    ELSE -1

\* s[a:b] with Python's treatment of negative and out-of-range indices
PySlice(s, a, b) ==
    LET n == Len(s)
        norm(k) == IF k < 0 THEN (IF k + n < 0 THEN 0 ELSE k + n)
                   ELSE (IF k > n THEN n ELSE k)
    IN  SubSeq(s, norm(a) + 1, norm(b))

\* s.replace(old, new), old non-empty: left to right, non-overlapping
RECURSIVE Replace(_, _, _)
Replace(s, old, new) ==
    IF Len(s) < Len(old) \/ old = <<>> THEN s
    ELSE IF SubSeq(s, 1, Len(old)) = old
         THEN new \o Replace(SubSeq(s, Len(old) + 1, Len(s)), old, new)
         ELSE <<s[1]>> \o Replace(Tail(s), old, new)

\* s.splitlines(): "\r\n" is one boundary; no empty last line after a final boundary
RECURSIVE SplitFrom(_, _)
SplitFrom(s, cur) ==
    IF s = <<>> THEN (IF cur = <<>> THEN <<>> ELSE <<cur>>)
    ELSE IF s[1] = CR /\ Len(s) >= 2 /\ s[2] = NL
         THEN <<cur>> \o SplitFrom(SubSeq(s, 3, Len(s)), <<>>)
    ELSE IF s[1] \in LineBreaks
         THEN <<cur>> \o SplitFrom(Tail(s), <<>>)
    ELSE SplitFrom(Tail(s), Append(cur, s[1]))

SplitLines(s) == SplitFrom(s, <<>>)

\* os.path.join(a, b)
PathJoin(a, b) ==
    IF b # <<>> /\ b[1] = "/" THEN b
    ELSE IF a = <<>> \/ a[Len(a)] = "/" THEN a \o b
    ELSE a \o <<"/">> \o b

\* sep.join(parts), and the concatenation of parts
RECURSIVE Join(_, _)
Join(parts, sep) ==
    IF parts = <<>> THEN <<>>
    ELSE IF Len(parts) = 1 THEN parts[1]
    ELSE parts[1] \o sep \o Join(Tail(parts), sep)

Concat(parts) == Join(parts, <<>>)

\* the tuples over S of length at most n
SeqsUpTo(S, n) == UNION {[1..k -> S] : k \in 0..n}

----------------------------------------------------------------------------
(* get_code, utils.py lines 10-46 *)

Fence == <<BQ, BQ, BQ>>

\* the else branch of the loop, line 43
AccumulateFirstLineForgotten(acc, is_first_line, line) == acc \o <<NL>> \o line

Accumulate(acc, is_first_line, line) ==
    acc \o (IF is_first_line THEN <<>> ELSE <<NL>>) \o line

\* the value returned at line 46 when the loop ends with no closing marker
UnterminatedDiscarded(acc) == <<>>

Unterminated(acc) == acc

\* the loop of lines 32-44 from line i on, with the three locals
RECURSIVE GetCodeLoop(_, _, _, _, _)
GetCodeLoop(lines, i, acc, is_code, is_first_line) ==
    IF i > Len(lines) THEN (IF is_code THEN Unterminated(acc) ELSE acc)
    ELSE LET line == lines[i] IN
         IF ~Contains(line, Fence) /\ ~is_code
         THEN GetCodeLoop(lines, i + 1, acc, is_code, is_first_line)
         ELSE IF Contains(line, Fence) /\ ~is_code
         THEN GetCodeLoop(lines, i + 1, acc, TRUE, TRUE)
         ELSE IF Contains(line, Fence) /\ is_code
         THEN acc
         ELSE GetCodeLoop(lines, i + 1, Accumulate(acc, is_first_line, line),
                          is_code, FALSE)

get_code(text) == GetCodeLoop(SplitLines(text), 1, <<>>, FALSE, FALSE)

----------------------------------------------------------------------------
(* State shared by the specifications *)

Ids == {<<"1">>, <<"s", "h", "o", "w">>}

None == "None"

\* exec(code) not yet called
NoOutcome ==
    [out |-> <<>>, end |-> "none", cls |-> "", args |-> <<>>, lineno |-> "",
     frames |-> <<>>]

\* a file that does not exist; an existing one is <<[data |-> .., run |-> ..]>>
Absent == <<>>

\* the interpreter before extract_and_save_scripts_from_sheets is called
Idle ==
    /\ sheet_idx = 0 /\ num_rows = 0 /\ rows_read = 0 /\ row_number = 0
    /\ console = <<>> /\ stdout = "console" /\ old_targets = None /\ f = <<>>
    /\ outcome = NoOutcome /\ error_found = FALSE /\ error_desc = <<>>
    /\ ret = <<>> /\ run = 0
    /\ entry_files = [output |-> Absent, error |-> Absent]

NoFiles ==
    /\ script_files = [i \in Ids |-> Absent]
    /\ output_files = [i \in Ids |-> Absent]
    /\ error_files = [i \in Ids |-> Absent]

driver_vars == <<sheet_idx, num_rows, rows_read, row_number, console, stdout,
                 old_targets, f, outcome, error_found, error_desc, ret, run,
                 entry_files, script_files, output_files, error_files>>

----------------------------------------------------------------------------
(* The Code Extractor alone: get_code applied to every bounded response *)

Pieces == {Fence, <<"a">>, <<NL>>, <<CR>>}

\* the responses of at most n pieces
Responses(n) == {Concat(ps) : ps \in SeqsUpTo(Pieces, n)}

\* line 22: code = get_code(code_column)
GetCode ==
    /\ pc = "get_code"
    /\ code' = get_code(model_a_response)
    /\ code_in' = model_a_response
    /\ pc' = "update_dataset_local_path"
    /\ UNCHANGED <<model_a_response, filename, id>>
    /\ UNCHANGED driver_vars

InitExtract ==
    /\ pc = "get_code"
    /\ model_a_response \in Responses(MaxPieces)
    /\ code = <<>> /\ code_in = <<>>
    /\ filename = <<>> /\ id = <<"1">>
    /\ Idle /\ NoFiles

SpecExtract == InitExtract /\ [][GetCode]_vars

\* the lines of a text that hold a marker
MarkerLines(L) == {k \in 1..Len(L) : Contains(L[k], Fence)}

\* lines i and j of L are the opening and the closing marker line of the first
\* block, M being the marker lines of L
WellFormedBlock(M, i, j) ==
    /\ i \in M /\ j \in M /\ i < j
    /\ \A k \in M : k = i \/ k >= j

GetCodeReturned == pc = "update_dataset_local_path"

\* C1: for a response whose first block is opened on line i and closed on line
\* j, get_code returns exactly the lines strictly between i and j joined by
\* newline: no trailing newline, nothing of the opening line, prefix or suffix.
C1_WellFormedBlockYieldsBody ==
    GetCodeReturned =>
        LET L == SplitLines(model_a_response)
            M == MarkerLines(L)
        IN  \A i, j \in M :
                WellFormedBlock(M, i, j) =>
                    code = Join(SubSeq(L, i + 1, j - 1), <<NL>>)

\* a block with a two-line body (the first line of it non-empty) was extracted
C1_Witness ==
    /\ GetCodeReturned
    /\ LET L == SplitLines(model_a_response)
           M == MarkerLines(L)
       IN  \E i, j \in M :
              /\ WellFormedBlock(M, i, j) /\ j = i + 3
              /\ L[i + 1] # <<>>
              /\ code = L[i + 1] \o <<NL>> \o L[i + 2]

----------------------------------------------------------------------------
(* update_dataset_local_path, utils.py lines 49-77 *)

CSV == <<".", "c", "s", "v">>
SQ == "'"
DQ == "\""

\* globals.DATASETS_PATH
DATASETS_PATH == <<"d", "s">>

\* line 67
QuoteSymbol(line) == IF Contains(line, <<SQ>>) THEN SQ ELSE DQ

\* lines 67-70: wrong_path
WrongPath(line) ==
    LET quote_symbol == QuoteSymbol(line)
        start == Find(line, quote_symbol)
        end == RFind(line, quote_symbol)
    IN  PySlice(line, start + 1, end)

\* what a replace of the path over the whole code would give
RewriteEveryOccurrence(text, line, wrong_path, path) ==
    Replace(text, wrong_path, path)

\* lines 73-74: newline = line.replace(...); code = code.replace(line, newline)
Rewrite(text, line, wrong_path, path) ==
    Replace(text, line, Replace(line, wrong_path, path))

\* the loop of lines 65-75 from line i on
RECURSIVE RewriteLoop(_, _, _, _)
RewriteLoop(text, lines, i, path) ==
    IF i > Len(lines) THEN text
    ELSE IF Contains(lines[i], CSV) /\ Len(WrongPath(lines[i])) > 0
         THEN Rewrite(text, lines[i], WrongPath(lines[i]), path)
         ELSE RewriteLoop(text, lines, i + 1, path)

update_dataset_local_path(text, name) ==
    RewriteLoop(text, SplitLines(text), 1, PathJoin(DATASETS_PATH, name))

\* line 23: code = update_dataset_local_path(code, dataset_name)
UpdateDatasetLocalPath ==
    /\ pc = "update_dataset_local_path"
    /\ code' = update_dataset_local_path(code, filename)
    /\ code_in' = code
    /\ pc' = "replace_show_with_savefig"
    /\ UNCHANGED <<model_a_response, filename, id>>
    /\ UNCHANGED driver_vars

(* The Path Rewriter alone: applied to every bounded code text *)

CodeLines ==
    { <<"r", "(", SQ, "a">> \o CSV \o <<SQ, ")">>,          \* r('a.csv')
      <<"#", "a">> \o CSV,                                    \* #a.csv
      <<"x">>,                                                \* x
      <<SQ, "a">> \o CSV,                                     \* 'a.csv
      <<DQ, "a">> \o CSV \o <<DQ>>,                           \* "a.csv"
      <<"#", "r", "(", SQ, "a">> \o CSV \o <<SQ, ")">>,      \* #r('a.csv')
      <<>> }

\* the code texts of at most n lines
Codes(n) == {Join(ls, <<NL>>) : ls \in SeqsUpTo(CodeLines, n)}

Filenames == {<<"d">> \o CSV, <<"a">> \o CSV}

InitRewrite ==
    /\ pc = "update_dataset_local_path"
    /\ code \in Codes(MaxLines)
    /\ filename \in Filenames
    /\ model_a_response = <<>> /\ code_in = <<>> /\ id = <<"1">>
    /\ Idle /\ NoFiles

SpecRewrite == InitRewrite /\ [][UpdateDatasetLocalPath]_vars

RewriterReturned == pc = "replace_show_with_savefig"

\* the positions of the chosen quote character on a line, and the text
\* between the first and the last of them
QuotePositions(line) ==
    LET q == IF \E i \in 1..Len(line) : line[i] = SQ THEN SQ ELSE DQ
    IN  {i \in 1..Len(line) : line[i] = q}

Between(line) ==
    LET Q == QuotePositions(line)
        first == CHOOSE i \in Q : \A j \in Q : i <= j
        last == CHOOSE i \in Q : \A j \in Q : i >= j
    IN  SubSeq(line, first + 1, last - 1)

HasQuotedPath(line) ==
    Cardinality(QuotePositions(line)) >= 2 /\ Between(line) # <<>>

CsvLines(L) == {k \in 1..Len(L) : Contains(L[k], CSV)}

FirstOf(S) == CHOOSE k \in S : \A j \in S : k <= j

ResolvedPath == DATASETS_PATH \o <<"/">> \o filename

\* C6 as stated: when the first '.csv' line holds a non-empty quoted substring
\* P, every occurrence of P in the whole code is replaced by the local path.
C6_EveryOccurrenceReplaced ==
    RewriterReturned =>
        LET L == SplitLines(code_in)
            C == CsvLines(L)
        IN  (C # {} /\ HasQuotedPath(L[FirstOf(C)])) =>
                code = Replace(code_in, Between(L[FirstOf(C)]), ResolvedPath)

\* C6 amended: when the first '.csv' line holds a non-empty quoted substring
\* P, the occurrences of P on that line are replaced by the local path, and so
\* is every verbatim occurrence of that whole line's text; a line that does
\* not contain the whole line's text is left as it was, also when it contains P.
C6_LineTextReplaced ==
    RewriterReturned =>
        LET L == SplitLines(code_in)
            C == CsvLines(L)
            R == SplitLines(code)
        IN  (C # {} /\ HasQuotedPath(L[FirstOf(C)])) =>
                LET line == L[FirstOf(C)]
                    newline == Replace(line, Between(line), ResolvedPath)
                IN  /\ Len(R) = Len(L)
                    /\ \A k \in 1..Len(L) :
                          R[k] = IF Contains(L[k], line)
                                 THEN Replace(L[k], line, newline)
                                 ELSE L[k]

\* the rewriter fired, and another line that holds P kept it
C6_Witness ==
    /\ RewriterReturned
    /\ LET L == SplitLines(code_in)
           C == CsvLines(L)
           R == SplitLines(code)
       IN  /\ C # {} /\ HasQuotedPath(L[FirstOf(C)])
           /\ code # code_in
           /\ \E k \in 1..Len(L) :
                 /\ k # FirstOf(C)
                 /\ Contains(L[k], Between(L[FirstOf(C)]))
                 /\ ~Contains(L[k], L[FirstOf(C)])
                 /\ R[k] = L[k]

\* C10: when no '.csv' line of the code holds a pair of the chosen quote
\* character (none at all, or a single one), the code is returned unchanged.
C10_NoQuotePairNoRewrite ==
    RewriterReturned =>
        LET L == SplitLines(code_in)
            C == CsvLines(L)
        IN  (C # {} /\ \A k \in C : Cardinality(QuotePositions(L[k])) < 2) =>
                code = code_in

----------------------------------------------------------------------------
(* replace_show_with_savefig, utils.py lines 97-115 *)

SHOW == <<".", "s", "h", "o", "w", "(", ")">>
PNG == <<".", "p", "n", "g">>

\* globals.OUPUT_IMAGES_PATH
OUPUT_IMAGES_PATH == <<"i", "m">>

\* a replace that stops after the first occurrence, as str.replace(.., .., 1)
RECURSIVE ReplaceFirst(_, _, _)
ReplaceFirst(s, old, new) ==
    IF Len(s) < Len(old) \/ old = <<>> THEN s
    ELSE IF SubSeq(s, 1, Len(old)) = old
         THEN new \o SubSeq(s, Len(old) + 1, Len(s))
         ELSE <<s[1]>> \o ReplaceFirst(Tail(s), old, new)

ShowReplacedOnce(text, image_path) ==
    ReplaceFirst(text, SHOW,
                 <<".", "s", "a", "v", "e", "f", "i", "g", "(", DQ>>
                     \o image_path \o <<DQ, ")">>)

\* line 114
ShowReplaced(text, image_path) ==
    Replace(text, SHOW,
            <<".", "s", "a", "v", "e", "f", "i", "g", "(", DQ>>
                \o image_path \o <<DQ, ")">>)

replace_show_with_savefig(text, ident) ==
    IF Contains(text, SHOW)
    THEN ShowReplaced(text, PathJoin(OUPUT_IMAGES_PATH, ident \o PNG))
    ELSE text

\* line 24: code = replace_show_with_savefig(code, id)
ReplaceShowWithSavefig ==
    /\ pc = "replace_show_with_savefig"
    /\ code' = replace_show_with_savefig(code, id)
    /\ code_in' = code
    /\ pc' = "save_script"
    /\ UNCHANGED <<model_a_response, filename, id>>
    /\ UNCHANGED driver_vars

(* The Display Substituter alone: applied to every bounded code text *)

ShowPieces ==
    { SHOW,
      <<".", "s", "h", "o", "w", "(">>,
      <<")">>,
      <<"p">> }

\* the code texts of at most n pieces
ShowCodes(n) == {Concat(ps) : ps \in SeqsUpTo(ShowPieces, n)}

InitShow ==
    /\ pc = "replace_show_with_savefig"
    /\ code \in ShowCodes(MaxTokens)
    /\ id \in Ids
    /\ model_a_response = <<>> /\ code_in = <<>> /\ filename = <<>>
    /\ Idle /\ NoFiles

SpecShow == InitShow /\ [][ReplaceShowWithSavefig]_vars

SubstituterReturned == pc = "save_script"

Occurrences(s, sub) ==
    {i \in 0..(Len(s) - Len(sub)) : SubSeq(s, i + 1, i + Len(sub)) = sub}

\* .savefig("<images_dir>/<id>.png")
SavefigCall ==
    <<".", "s", "a", "v", "e", "f", "i", "g", "(", DQ>>
        \o OUPUT_IMAGES_PATH \o <<"/">> \o id \o PNG \o <<DQ, ")">>

----------------------------------------------------------------------------
(* save_script, utils.py lines 80-94 *)

\* open(path, 'w') and write: the file holds data, whatever it held
Written(files, ident, data) ==
    [files EXCEPT ![ident] = <<[data |-> data, run |-> run]>>]

\* line 25: save_script(code, id)
SaveScript ==
    /\ pc = "save_script"
    /\ script_files' = Written(script_files, id, code)
    /\ pc' = "execute_code"
    /\ UNCHANGED <<model_a_response, code, code_in, filename, id, ret,
                   sheet_idx, num_rows, rows_read, row_number, console,
                   stdout, old_targets, f, outcome, error_found, error_desc,
                   output_files, error_files, run, entry_files>>

----------------------------------------------------------------------------
(* execute_code, utils.py lines 118-183, called with save_output=True *)

\* print and every other write to sys.stdout go to the stream it is bound to
WriteStdout(items) ==
    IF stdout = "console"
    THEN console' = console \o items /\ f' = f
    ELSE f' = f \o items /\ console' = console

\* what running a snippet can do: the text it prints, then how it ends.
\*   ok             exec returns
\*   SyntaxError    a SyntaxError, with err.args and err.lineno
\*   Exception      any other Exception, with err.args and the line numbers of
\*                  the traceback's frames (the first is the exec call, line 153)
\*   BaseException  SystemExit, KeyboardInterrupt: no except clause matches
Printed == {<<>>, <<"2", NL>>}

Endings ==
    { [end |-> "ok", cls |-> "", args |-> <<>>, lineno |-> "", frames |-> <<>>],
      [end |-> "SyntaxError", cls |-> "SyntaxError", args |-> <<"invalid syntax">>,
       lineno |-> "1", frames |-> <<"153">>],
      [end |-> "SyntaxError", cls |-> "SyntaxError", args |-> <<>>,
       lineno |-> "None", frames |-> <<"153", "1">>],
      [end |-> "Exception", cls |-> "ZeroDivisionError",
       args |-> <<"division by zero">>, lineno |-> "", frames |-> <<"153", "1">>],
      [end |-> "Exception", cls |-> "AssertionError", args |-> <<>>,
       lineno |-> "", frames |-> <<"153", "1">>],
      [end |-> "Exception", cls |-> "TypeError", args |-> <<"bad source">>,
       lineno |-> "", frames |-> <<"153">>],
      [end |-> "BaseException", cls |-> "SystemExit", args |-> <<"3">>,
       lineno |-> "", frames |-> <<"153", "1">>] }

\* exec of the empty text does nothing
Outcomes(text) ==
    IF text = <<>>
    THEN {[out |-> <<>>, end |-> "ok", cls |-> "", args |-> <<>>, lineno |-> "",
           frames |-> <<>>]}
    ELSE {[out |-> o, end |-> e.end, cls |-> e.cls, args |-> e.args,
           lineno |-> e.lineno, frames |-> e.frames] : o \in Printed, e \in Endings}

\* os.remove that leaves the file in place
NotRemoved(files, ident) == files

\* lines 144-147: with suppress(FileNotFoundError): os.remove(path)
Removed(files, ident) == [files EXCEPT ![ident] = Absent]

\* lines 135-147
RemoveExisting ==
    /\ pc = "execute_code"
    /\ f' = <<>>
    /\ error_found' = FALSE
    /\ error_desc' = <<>>
    /\ run' = run + 1
    /\ entry_files' = [output |-> output_files[id], error |-> error_files[id]]
    /\ error_files' = Removed(error_files, id)
    /\ output_files' = Removed(output_files, id)
    /\ pc' = "redirect_stdout"
    /\ UNCHANGED <<model_a_response, code, code_in, filename, id, ret,
                   sheet_idx, num_rows, rows_read, row_number, console,
                   stdout, old_targets, outcome, script_files>>

\* line 150, redirect_stdout.__enter__
RedirectStdout ==
    /\ pc = "redirect_stdout"
    /\ old_targets' = stdout
    /\ stdout' = "buffer"
    /\ pc' = "exec"
    /\ UNCHANGED <<model_a_response, code, code_in, filename, id, ret,
                   sheet_idx, num_rows, rows_read, row_number, console, f,
                   outcome, error_found, error_desc, script_files,
                   output_files, error_files, run, entry_files>>

\* line 153
Exec ==
    /\ pc = "exec"
    /\ \E o \in Outcomes(code) :
          /\ outcome' = o
          /\ WriteStdout(o.out)
          /\ pc' = IF o.end = "ok" THEN "exit" ELSE "except"
    /\ UNCHANGED <<model_a_response, code, code_in, filename, id, ret,
                   sheet_idx, num_rows, rows_read, row_number, stdout,
                   old_targets, error_found, error_desc, script_files,
                   output_files, error_files, run, entry_files>>

\* line 170: f"{error_class} at line {line_number}: {detail}"
ErrorDesc(error_class, line_number, detail) ==
    <<error_class, " at line ", line_number, ": ", detail>>

\* whether the handler of lines 154-159 (resp. 160-166) runs to its end:
\* err.args[0] and extract_tb(tb)[1] raise IndexError on a short sequence
SyntaxHandlerCompletes(o) == Len(o.args) >= 1

ExceptionHandlerCompletes(o) == Len(o.args) >= 1 /\ Len(o.frames) >= 2

\* lines 154-159
ClassifySyntaxError ==
    /\ pc = "except"
    /\ outcome.end = "SyntaxError"
    /\ SyntaxHandlerCompletes(outcome)
    /\ error_desc' = ErrorDesc(outcome.cls, outcome.lineno, outcome.args[1])
    /\ error_found' = TRUE
    /\ pc' = "exit"
    /\ UNCHANGED <<model_a_response, code, code_in, filename, id, ret,
                   sheet_idx, num_rows, rows_read, row_number, console,
                   stdout, old_targets, f, outcome, script_files,
                   output_files, error_files, run, entry_files>>

\* lines 160-166
ClassifyException ==
    /\ pc = "except"
    /\ outcome.end = "Exception"
    /\ ExceptionHandlerCompletes(outcome)
    /\ error_desc' = ErrorDesc(outcome.cls, outcome.frames[2], outcome.args[1])
    /\ error_found' = TRUE
    /\ pc' = "exit"
    /\ UNCHANGED <<model_a_response, code, code_in, filename, id, ret,
                   sheet_idx, num_rows, rows_read, row_number, console,
                   stdout, old_targets, f, outcome, script_files,
                   output_files, error_files, run, entry_files>>

\* lines 157, 163, 165: the handler itself raises IndexError, which leaves
\* the try statement
ClassificationFails ==
    /\ pc = "except"
    /\ \/ outcome.end = "SyntaxError" /\ ~SyntaxHandlerCompletes(outcome)
       \/ outcome.end = "Exception" /\ ~ExceptionHandlerCompletes(outcome)
    /\ pc' = "raise"
    /\ UNCHANGED <<model_a_response, code, code_in, filename, id, ret,
                   sheet_idx, num_rows, rows_read, row_number, console,
                   stdout, old_targets, f, outcome, error_found, error_desc,
                   script_files, output_files, error_files, run, entry_files>>

\* lines 154, 160: neither clause matches what was raised
NotCaught ==
    /\ pc = "except"
    /\ outcome.end = "BaseException"
    /\ pc' = "raise"
    /\ UNCHANGED <<model_a_response, code, code_in, filename, id, ret,
                   sheet_idx, num_rows, rows_read, row_number, console,
                   stdout, old_targets, f, outcome, error_found, error_desc,
                   script_files, output_files, error_files, run, entry_files>>

\* a context manager that forgets the stream it saved
StreamKept(current, saved) == current

\* redirect_stdout.__exit__: sys.stdout is set to the saved stream
StreamRestored(current, saved) == saved

\* line 150, leaving the with statement normally
ExitRedirect ==
    /\ pc = "exit"
    /\ stdout' = StreamRestored(stdout, old_targets)
    /\ old_targets' = None
    /\ pc' = "result"
    /\ UNCHANGED <<model_a_response, code, code_in, filename, id, ret,
                   sheet_idx, num_rows, rows_read, row_number, console, f,
                   outcome, error_found, error_desc, script_files,
                   output_files, error_files, run, entry_files>>

\* line 150, leaving the with statement by an exception, which then leaves
\* execute_code and extract_and_save_scripts_from_sheets: the batch ends
ExitRedirectRaising ==
    /\ pc = "raise"
    /\ stdout' = StreamRestored(stdout, old_targets)
    /\ old_targets' = None
    /\ pc' = "aborted"
    /\ UNCHANGED <<model_a_response, code, code_in, filename, id, ret,
                   sheet_idx, num_rows, rows_read, row_number, console, f,
                   outcome, error_found, error_desc, script_files,
                   output_files, error_files, run, entry_files>>

\* lines 168-175
SaveError ==
    /\ pc = "result"
    /\ error_found
    /\ error_files' = Written(error_files, id, error_desc)
    /\ ret' = error_desc
    /\ pc' = "returned"
    /\ UNCHANGED <<model_a_response, code, code_in, filename, id, sheet_idx,
                   num_rows, rows_read, row_number, console, stdout,
                   old_targets, f, outcome, error_found, error_desc,
                   script_files, output_files, run, entry_files>>

\* a test that saves whatever was captured
OutputSavedAlways(output) == TRUE

\* line 179: if save_output and output
OutputSaved(output) == output # <<>>

\* lines 176-183
SaveOutput ==
    /\ pc = "result"
    /\ ~error_found
    /\ output_files' = IF OutputSaved(f) THEN Written(output_files, id, f)
                       ELSE output_files
    /\ ret' = f
    /\ pc' = "returned"
    /\ UNCHANGED <<model_a_response, code, code_in, filename, id, sheet_idx,
                   num_rows, rows_read, row_number, console, stdout,
                   old_targets, f, outcome, error_found, error_desc,
                   script_files, error_files, run, entry_files>>

----------------------------------------------------------------------------
(* extract_and_save_scripts_from_sheets, ice_correctness_rating_bms.py 6-28 *)

SheetHead == "sheet.head(20)"
SkipLine == "Skipping row with no code."

\* the response cells of the workbook: blank, prose with no block, a block
Cells == {<<>>, <<"t">>, Fence \o <<NL, "p", NL>> \o Fence}

\* lines 13-15: the next sheet is read and its head printed
ReadSheet ==
    /\ pc = "sheet"
    /\ sheet_idx < NumSheets
    /\ sheet_idx' = sheet_idx + 1
    /\ \E n \in 0..(MaxRows - rows_read) :
          /\ num_rows' = n
          /\ rows_read' = rows_read + n
    /\ row_number' = 0
    /\ WriteStdout(<<SheetHead>>)
    /\ pc' = "row"
    /\ UNCHANGED <<model_a_response, code, code_in, filename, id, ret, stdout,
                   old_targets, outcome, error_found, error_desc, script_files,
                   output_files, error_files, run, entry_files>>

\* line 13: no sheet is left
Finish ==
    /\ pc = "sheet"
    /\ sheet_idx = NumSheets
    /\ pc' = "done"
    /\ UNCHANGED <<model_a_response, code, code_in, filename, id, ret,
                   sheet_idx, num_rows, rows_read, row_number, console,
                   stdout, old_targets, f, outcome, error_found, error_desc,
                   script_files, output_files, error_files, run, entry_files>>

\* lines 17-21, the if branch: a row whose response cell is not blank
TakeRow ==
    /\ pc = "row"
    /\ row_number < num_rows
    /\ \E i \in Ids, cell \in Cells \ {<<>>} :
          /\ id' = i
          /\ model_a_response' = cell
    /\ pc' = "get_code"
    /\ UNCHANGED <<code, code_in, filename, ret, sheet_idx, num_rows,
                   rows_read, row_number, console, stdout, old_targets, f,
                   outcome, error_found, error_desc, script_files,
                   output_files, error_files, run, entry_files>>

\* lines 17-21 and 27-28: a row whose response cell is blank
SkipRow ==
    /\ pc = "row"
    /\ row_number < num_rows
    /\ \E i \in Ids : id' = i
    /\ model_a_response' = <<>>
    /\ WriteStdout(<<SkipLine>>)
    /\ row_number' = row_number + 1
    /\ UNCHANGED <<pc, code, code_in, filename, ret, sheet_idx, num_rows,
                   rows_read, stdout, old_targets, outcome, error_found,
                   error_desc, script_files, output_files, error_files, run,
                   entry_files>>

\* line 17: no row is left in the sheet
EndSheet ==
    /\ pc = "row"
    /\ row_number = num_rows
    /\ pc' = "sheet"
    /\ UNCHANGED <<model_a_response, code, code_in, filename, id, ret,
                   sheet_idx, num_rows, rows_read, row_number, console,
                   stdout, old_targets, f, outcome, error_found, error_desc,
                   script_files, output_files, error_files, run, entry_files>>

\* line 26 returns and the loop of line 17 goes on: the locals of the row and
\* of execute_code are gone
Continue ==
    /\ pc = "returned"
    /\ row_number' = row_number + 1
    /\ model_a_response' = <<>> /\ code' = <<>> /\ code_in' = <<>>
    /\ f' = <<>> /\ outcome' = NoOutcome /\ error_found' = FALSE
    /\ error_desc' = <<>> /\ ret' = <<>>
    /\ entry_files' = [output |-> Absent, error |-> Absent]
    /\ pc' = "row"
    /\ UNCHANGED <<filename, id, sheet_idx, num_rows, rows_read, console,
                   stdout, old_targets, script_files, output_files,
                   error_files, run>>

\* an artifact left by an earlier batch
Old == <<[data |-> <<"old">>, run |-> 0]>>

Init ==
    /\ pc = "sheet"
    /\ model_a_response = <<>> /\ code = <<>> /\ code_in = <<>>
    /\ filename = <<"d">> \o CSV
    /\ id = <<"1">>
    /\ Idle
    /\ script_files = [i \in Ids |-> Absent]
    /\ output_files \in [Ids -> {Absent, Old}]
    /\ error_files \in [Ids -> {Absent, Old}]

Next ==
    \/ ReadSheet
    \/ Finish
    \/ TakeRow
    \/ SkipRow
    \/ EndSheet
    \/ GetCode
    \/ UpdateDatasetLocalPath
    \/ ReplaceShowWithSavefig
    \/ SaveScript
    \/ RemoveExisting
    \/ RedirectStdout
    \/ Exec
    \/ ClassifySyntaxError
    \/ ClassifyException
    \/ ClassificationFails
    \/ NotCaught
    \/ ExitRedirect
    \/ ExitRedirectRaising
    \/ SaveError
    \/ SaveOutput
    \/ Continue

Spec == Init /\ [][Next]_vars

----------------------------------------------------------------------------
(* Properties of the batch *)

Exists(file) == file # Absent

Raised == outcome.end \in {"SyntaxError", "Exception", "BaseException"}

\* execute_code has returned to line 26 for the row of id
ExecuteReturned == pc = "returned"

\* C3 as stated: after a run that returns, exactly one of the output file and
\* the error file of the identifier exists (taken for the runs of a non-empty
\* code text, which are the rows that hold a block with a body).
C3_ExactlyOneArtifact ==
    (ExecuteReturned /\ code # <<>>) =>
        (Exists(output_files[id]) # Exists(error_files[id]))

\* C3 amended: after a run that returns, whatever existed before, the two
\* files never both exist: the error file exists exactly when the code raised,
\* the output file exactly when the code succeeded and printed something, so
\* neither exists after a success that printed nothing.
C3_AtMostOneArtifact ==
    ExecuteReturned =>
        /\ ~(Exists(output_files[id]) /\ Exists(error_files[id]))
        /\ Exists(error_files[id]) <=> Raised
        /\ Exists(output_files[id]) <=> (outcome.end = "ok" /\ outcome.out # <<>>)

\* both files existed before a run that succeeded printing nothing
C3_Witness ==
    /\ ExecuteReturned
    /\ Exists(entry_files.output) /\ Exists(entry_files.error)
    /\ outcome.end = "ok" /\ outcome.out = <<>> /\ code # <<>>
    /\ ~Exists(output_files[id]) /\ ~Exists(error_files[id])

\* the run that has returned found an error file written by an earlier run of
\* the batch for the same identifier, and its own (non-empty) code succeeded
ErrorThenSuccess ==
    /\ ExecuteReturned
    /\ Exists(entry_files.error) /\ entry_files.error[1].run >= 1
    /\ code # <<>>
    /\ outcome.end = "ok"

\* C4 as stated: after a run that left an error file and a later run of the
\* same identifier whose code succeeds, the error file is gone and the output
\* file exists.
C4_SuccessLeavesOutputFile ==
    ErrorThenSuccess =>
        (~Exists(error_files[id]) /\ Exists(output_files[id]))

\* C4 amended: no artifact of an earlier run survives a later run of the same
\* identifier: what exists after the run was written by that run and holds
\* what it returned; after an error run and a later successful run the error
\* file is gone, and the output file exists only if the later run printed
\* something (else no artifact exists for the identifier).
C4_NoArtifactSurvives ==
    ExecuteReturned =>
        /\ \A file \in {output_files[id], error_files[id]} :
              Exists(file) => (file[1].run = run /\ file[1].data = ret)
        /\ ErrorThenSuccess =>
              /\ ~Exists(error_files[id])
              /\ Exists(output_files[id]) <=> outcome.out # <<>>

\* an error run of the batch followed by a printing success of the same id
C4_Witness ==
    /\ ErrorThenSuccess
    /\ Exists(output_files[id]) /\ output_files[id][1].run = run
    /\ ~Exists(error_files[id])

\* C5: a row whose code raises, whatever it raises, never ends the batch:
\* execute_code returns the classification 'Kind at line N: detail', which is
\* in the error file, and the driver goes on.
C5_FailureContained ==
    Raised =>
        /\ pc \notin {"raise", "aborted"}
        /\ ExecuteReturned =>
              /\ ret = ErrorDesc(outcome.cls, ret[3], ret[5])
              /\ error_files[id] = <<[data |-> ret, run |-> run]>>

\* the rows past extraction: lines 23-26 and everything execute_code does
PipelineAfterExtraction ==
    pc \in {"update_dataset_local_path", "replace_show_with_savefig",
            "save_script", "execute_code", "redirect_stdout", "exec", "except",
            "exit", "raise", "result", "returned"}

\* C8: a row from which get_code extracts the empty string is skipped: no
\* script is saved for it and execute_code is not run for it.
C8_NoCodeRowSkipped ==
    (PipelineAfterExtraction /\ get_code(model_a_response) = <<>>) =>
        pc \notin {"execute_code", "redirect_stdout", "exec", "except", "exit",
                   "raise", "result", "returned"}

\* the positions at which sys.stdout is bound to the capture buffer
InsideRedirect == pc \in {"exec", "except", "exit", "raise"}

\* C9: sys.stdout is the capture buffer only while execute_code runs the
\* snippet; however the call ends, it is again the stream it was before, and
\* no line the driver prints is ever in a capture buffer or an output file.
C9_StdoutScoped ==
    /\ InsideRedirect <=> stdout = "buffer"
    /\ ~InsideRedirect => (stdout = "console" /\ old_targets = None)
    /\ \A i \in 1..Len(f) : f[i] \notin {SheetHead, SkipLine}
    /\ \A i \in Ids :
          Exists(output_files[i]) =>
              \A k \in 1..Len(output_files[i][1].data) :
                  output_files[i][1].data[k] \notin {SheetHead, SkipLine}

\* a classification failed, the stream was restored on the way out
C9_Witness ==
    /\ pc = "aborted"
    /\ outcome.end = "Exception" /\ outcome.out # <<>>
    /\ stdout = "console"
    /\ Len(console) >= 2

====
